---- MODULE Spec2Model ----
(***************************************************************************)
(* cookiecutter.hooks: discovery of the pre_gen_project/post_gen_project   *)
(* hook scripts in ./hooks, rendering of a hook through Jinja into a       *)
(* temporary file, and execution of that file as a child process.          *)
(*                                                                         *)
(* Paths and file names are sequences of tokens: "/" is the path           *)
(* separator, "." the extension separator, every other token a run of      *)
(* characters holding neither.                                             *)
(***************************************************************************)
EXTENDS Integers, Sequences, FiniteSets, TLC

VARIABLES
    platform,     \* sys.platform
    hooks_kind,   \* what ./hooks is: "absent", "file", "dir", "unlistable"
    listing,      \* what os.listdir('hooks') yields, in listing order
    hook_name,    \* run_hook's hook_name
    project_dir,  \* run_hook's project_dir
    context,      \* run_hook's context
    pc,           \* position of the run_hook call
    registry,     \* the dict find_hooks returned
    script,       \* run_hook's local `script`
    contents,     \* run_script_with_context's local `contents`
    opened,       \* paths opened for reading
    temp,         \* name of the NamedTemporaryFile, <<>> before it exists
    temp_data,    \* what was written to the temporary file
    chmodded,     \* paths handed to utils.make_executable
    popen,        \* the subprocess.Popen calls made, in order
    child,        \* the child process: "none", "running", "exited"
    exit_status,  \* the child's exit status once it exited
    oe,           \* errno of the OSError subprocess.Popen raised, "" if none
    result        \* how run_hook ended

vars == <<platform, hooks_kind, listing, hook_name, project_dir, context, pc,
          registry, script, contents, opened, temp, temp_data, chmodded,
          popen, child, exit_status, oe, result>>

inputs == <<platform, hooks_kind, listing, hook_name, project_dir, context>>

----------------------------------------------------------------------------
(* Bounds *)

MaxEntries == 2

MaxTemplateLen == 1

----------------------------------------------------------------------------
(* Module constants *)

_HOOKS == { <<"pre_gen_project">>, <<"post_gen_project">> }

EXIT_SUCCESS == 0

hooks_dir == <<"hooks">>

----------------------------------------------------------------------------
(* os.path *)

Sep == "/"

ExtSep == "."

\* str.rfind, shifted to 1-based indices: 0 when c does not occur
RFind(p, c) ==
    LET hits == { i \in 1..Len(p) : p[i] = c }
    IN  IF hits = {} THEN 0 ELSE CHOOSE i \in hits : \A j \in hits : j <= i

\* genericpath._splitext: the extension starts at the last dot of the last
\* path component, unless only dots precede it in that component
SplitExt(p) ==
    LET sepIndex == RFind(p, Sep)
        dotIndex == RFind(p, ExtSep)
    IN  IF /\ dotIndex > sepIndex
           /\ \E k \in (sepIndex + 1)..(dotIndex - 1) : p[k] # ExtSep
        THEN <<SubSeq(p, 1, dotIndex - 1), SubSeq(p, dotIndex, Len(p))>>
        ELSE <<p, <<>>>>

Basename(p) == SubSeq(p, RFind(p, Sep) + 1, Len(p))

Join(a, b) == a \o <<Sep>> \o b

Cwd == <<Sep, "template">>

\* os.path.abspath of a normalised relative path
AbsPath(p) == Join(Cwd, p)

EndsWith(p, suffix) ==
    /\ Len(p) >= Len(suffix)
    /\ SubSeq(p, Len(p) - Len(suffix) + 1, Len(p)) = suffix

\* find_hooks without its isdir test
IsDirAlways(kind) == TRUE

IsDir(kind) == kind \in {"dir", "unlistable"}

----------------------------------------------------------------------------
(* find_hooks *)

EmptyDict == [k \in {} |-> <<>>]

DictSet(r, k, v) == [x \in (DOMAIN r) \cup {k} |-> IF x = k THEN v ELSE r[x]]

DictGet(r, k) == IF k \in DOMAIN r THEN r[k] ELSE <<>>

Stem(f) == SplitExt(Basename(f))[1]

HookPath(f) == AbsPath(Join(hooks_dir, f))

\* os.listdir(hooks_dir): the entries, or the errno of the OSError it raises
ListDir(kind, entries) ==
    CASE kind = "dir"        -> [errno |-> "",        entries |-> entries]
      [] kind = "unlistable" -> [errno |-> "EACCES",  entries |-> <<>>]
      [] kind = "file"       -> [errno |-> "ENOTDIR", entries |-> <<>>]
      [] OTHER               -> [errno |-> "ENOENT",  entries |-> <<>>]

\* the loop body without the membership test
LoopBodyAnyStem(r, f) == DictSet(r, Stem(f), HookPath(f))

\* the loop body keeping the first match of a name
LoopBodyFirstWins(r, f) ==
    LET basename == Stem(f)
    IN  IF basename \in _HOOKS /\ basename \notin DOMAIN r
        THEN DictSet(r, basename, HookPath(f))
        ELSE r

\* the body of the for loop, for entry f
LoopBody(r, f) ==
    LET basename == Stem(f)
    IN  IF basename \in _HOOKS
        THEN DictSet(r, basename, HookPath(f))
        ELSE r

RECURSIVE FindLoop(_, _, _)
FindLoop(entries, i, r) ==
    IF i > Len(entries) THEN r
    ELSE FindLoop(entries, i + 1, LoopBody(r, entries[i]))

\* what find_hooks does: returns r, or lets the OSError of os.listdir out
find_hooks(kind, entries) ==
    IF ~IsDir(kind)
    THEN [errno |-> "", r |-> EmptyDict]
    ELSE LET l == ListDir(kind, entries)
         IN  IF l.errno # ""
             THEN [errno |-> l.errno, r |-> EmptyDict]
             ELSE [errno |-> "", r |-> FindLoop(l.entries, 1, EmptyDict)]

----------------------------------------------------------------------------
(* Exceptions *)

NoResult == [kind |-> "pending", type |-> "", errno |-> "", msg |-> <<>>]

Returned == [kind |-> "returned", type |-> "", errno |-> "", msg |-> <<>>]

Raise(type, errno, msg) ==
    [kind |-> "raised", type |-> type, errno |-> errno, msg |-> msg]

\* str(OSError)
StrOSError(errno) ==
    CASE errno = "ENOEXEC" -> "[Errno 8] Exec format error"
      [] errno = "EACCES"  -> "[Errno 13] Permission denied"
      [] errno = "ENOENT"  -> "[Errno 2] No such file or directory"
      [] OTHER             -> "[Errno] " \o errno

OSError(errno) == Raise("OSError", errno, <<StrOSError(errno)>>)

\* the class each exception class derives from
BaseClass(type) ==
    CASE type = "FailedHookException"  -> "CookiecutterException"
      [] type = "CookiecutterException" -> "Exception"
      [] type = "OSError"               -> "Exception"
      [] type = "IOError"               -> "OSError"
      [] type = "TemplateSyntaxError"   -> "TemplateError"
      [] type = "UndefinedError"        -> "TemplateError"
      [] type = "TemplateError"         -> "Exception"
      [] OTHER                          -> "BaseException"

RECURSIVE IsInstance(_, _)
IsInstance(type, class) ==
    \/ type = class
    \/ /\ type # "BaseException"
       /\ IsInstance(BaseClass(type), class)

ExitStatusMessage(n) ==
    <<"Hook script failed (exit status: ", ToString(n), ")">>

ShebangMessage ==
    <<"Hook script failed, might be an empty file or missing a shebang">>

OSErrorMessage(e) ==
    <<"Hook script failed (error: ">> \o e.msg \o <<")">>

\* the try block without the test of the exit status
WaitResultUnchecked(n) == Returned

\* what the try block raises, or how it ends, once proc.wait() gave status n
WaitResult(n) ==
    IF n # EXIT_SUCCESS
    THEN Raise("FailedHookException", "", ExitStatusMessage(n))
    ELSE Returned

\* an except clause that catches every exception
ExceptAnything(e) ==
    IF e.kind = "raised"
    THEN IF e.errno = "ENOEXEC"
         THEN Raise("FailedHookException", "", ShebangMessage)
         ELSE Raise("FailedHookException", "", OSErrorMessage(e))
    ELSE e

\* an except clause without the errno test
ExceptOSErrorNoErrno(e) ==
    IF e.kind = "raised" /\ IsInstance(e.type, "OSError")
    THEN Raise("FailedHookException", "", OSErrorMessage(e))
    ELSE e

\* the except clause of run_script's try block, applied to what the block raised
ExceptOSError(e) ==
    IF e.kind = "raised" /\ IsInstance(e.type, "OSError")
    THEN IF e.errno = "ENOEXEC"
         THEN Raise("FailedHookException", "", ShebangMessage)
         ELSE Raise("FailedHookException", "", OSErrorMessage(e))
    ELSE e

----------------------------------------------------------------------------
(* jinja2: Template(contents).render with the context, default Undefined *)

\* A template is a sequence of nodes:
\*   data          literal text v
\*   name          {{ v }}
\*   getattr       {{ v.attr }}
\*   syntax_error  text the template parser rejects
Nodes ==
    { [t |-> "data",         v |-> "exit 7"],
      [t |-> "name",         v |-> "project_name"],
      [t |-> "getattr",      v |-> "project_name"],
      [t |-> "syntax_error", v |-> "{{"] }

RECURSIVE SeqsUpTo(_, _)
SeqsUpTo(S, n) ==
    IF n = 0 THEN { <<>> }
    ELSE LET shorter == SeqsUpTo(S, n - 1)
         IN  shorter \cup { Append(q, x) : q \in shorter, x \in S }

Templates == SeqsUpTo(Nodes, MaxTemplateLen)

EmptyContext == [k \in {} |-> ""]

Contexts == { EmptyContext, [k \in {"project_name"} |-> "demo"] }

\* what one node contributes to the output; an undefined name prints as the
\* empty string, an attribute of a string that has none is undefined too
RenderNode(n, ctx) ==
    CASE n.t = "data"    -> n.v
      [] n.t = "name"    -> IF n.v \in DOMAIN ctx THEN ctx[n.v] ELSE ""
      [] n.t = "getattr" -> ""
      [] OTHER           -> ""

\* the error a node raises, "" when it raises none: looking an attribute up
\* on an undefined name raises UndefinedError
NodeError(n, ctx) ==
    CASE n.t = "syntax_error" -> "TemplateSyntaxError"
      [] n.t = "getattr" /\ n.v \notin DOMAIN ctx -> "UndefinedError"
      [] OTHER -> ""

Render(tpl, ctx) ==
    IF \E i \in 1..Len(tpl) : tpl[i].t = "syntax_error"
    THEN [ok |-> FALSE, error |-> "TemplateSyntaxError", output |-> <<>>]
    ELSE IF \E i \in 1..Len(tpl) : NodeError(tpl[i], ctx) # ""
    THEN [ok |-> FALSE, error |-> "UndefinedError", output |-> <<>>]
    ELSE [ok |-> TRUE, error |-> "",
          output |-> [i \in 1..Len(tpl) |-> RenderNode(tpl[i], ctx)]]

----------------------------------------------------------------------------
(* run_script_with_context, run_script *)

TempDir == <<Sep, "tmp">>

\* the random part of a NamedTemporaryFile name: letters, digits, underscore
RandomNames == { "tmpq8_w3kpy" }

NoTempWritten == <<"<empty>">>

\* a temporary file created without the suffix
TempNameNoSuffix(rnd, script_path) == Join(TempDir, <<rnd>>)

\* tempfile.NamedTemporaryFile(suffix=extension).name
TempName(rnd, script_path) == Join(TempDir, <<rnd>> \o SplitExt(script_path)[2])

sys_executable == <<Sep, "usr", Sep, "bin", Sep, "python">>

script_command(script_path) ==
    IF EndsWith(script_path, <<ExtSep, "py">>)
    THEN <<sys_executable, script_path>>
    ELSE <<script_path>>

run_thru_shell(plat) == SubSeq(plat, 1, 1) = <<"win">>

PopenCall(script_path, cwd, plat) ==
    [args  |-> script_command(script_path),
     shell |-> run_thru_shell(plat),
     cwd   |-> cwd]

\* how the launch can go: the kernel refuses a file with no valid header
\* only when that file itself is the program to execute
LaunchOutcomes(call) ==
    {"started", "EACCES", "ENOENT"}
        \cup (IF Len(call.args) = 1 /\ ~call.shell THEN {"ENOEXEC"} ELSE {})

ExitStatuses == {-9, 0, 3, 7}

\* a poll in place of the wait
WaitReturnsAtOnce(c) == TRUE

\* proc.wait() returns only once the child process has terminated
WaitReturns(c) == c = "exited"

----------------------------------------------------------------------------
(* State machine *)

FileNames ==
    { <<"pre_gen_project", ".", "py">>,
      <<"pre_gen_project", ".", "sh">>,
      <<"pre_gen_project">>,
      <<"post_gen_project", ".", "sh">>,
      <<"pre_gen_project", ".", "py", ".", "bak">>,
      <<".", "pre_gen_project">>,
      <<"pre_gen_project", ".">>,
      <<"README", ".", "md">> }

Listings ==
    { l \in SeqsUpTo(FileNames, MaxEntries) :
        \A i, j \in 1..Len(l) : i # j => l[i] # l[j] }

Platforms == { <<"linux">>, <<"win", "32">> }

HookNames == _HOOKS \cup { <<"unknown_hook">> }

ProjectDirs == { "/out/project", "." }

Init ==
    /\ platform \in Platforms
    /\ hooks_kind \in {"absent", "file", "dir", "unlistable"}
    /\ listing \in IF hooks_kind = "dir" THEN Listings ELSE { <<>> }
    /\ hook_name \in HookNames
    /\ project_dir \in ProjectDirs
    /\ context \in Contexts
    /\ pc = "run_hook"
    /\ registry = EmptyDict
    /\ script = <<>>
    /\ contents = <<>>
    /\ opened = {}
    /\ temp = <<>>
    /\ temp_data = NoTempWritten
    /\ chmodded = {}
    /\ popen = <<>>
    /\ child = "none"
    /\ exit_status = EXIT_SUCCESS
    /\ oe = ""
    /\ result = NoResult

\* run_hook up to the call of run_script_with_context; os.listdir raises on
\* a directory that cannot be read
RunHook ==
    /\ pc = "run_hook"
    /\ LET found == find_hooks(hooks_kind, listing)
       IN  IF found.errno # ""
           THEN /\ result' = OSError(found.errno)
                /\ pc' = "done"
                /\ UNCHANGED <<registry, script>>
           ELSE /\ registry' = found.r
                /\ script' = DictGet(found.r, hook_name)
                /\ IF script' = <<>>
                   THEN result' = Returned /\ pc' = "done"
                   ELSE result' = result /\ pc' = "open"
    /\ UNCHANGED <<inputs, contents, opened, temp, temp_data, chmodded,
                   popen, child, exit_status, oe>>

\* io.open(script_path).read(): the file's text, or an IOError (the entry is
\* a directory, or was removed since the listing)
ReadScript ==
    /\ pc = "open"
    /\ opened' = opened \cup {script}
    /\ \/ \E c \in Templates :
            /\ contents' = c
            /\ pc' = "render"
            /\ UNCHANGED result
       \/ \E errno \in {"EISDIR", "ENOENT"} :
            /\ result' = Raise("IOError", errno, <<StrOSError(errno)>>)
            /\ pc' = "done"
            /\ UNCHANGED contents
    /\ UNCHANGED <<inputs, registry, script, temp, temp_data, chmodded,
                   popen, child, exit_status, oe>>

\* the with block: the temporary file is created, the template rendered and
\* the output written; a rendering error leaves the file empty and propagates
RenderToTemp ==
    /\ pc = "render"
    /\ \E rnd \in RandomNames : temp' = TempName(rnd, script)
    /\ LET r == Render(contents, context)
       IN  IF r.ok
           THEN /\ temp_data' = r.output
                /\ pc' = "run_script"
                /\ UNCHANGED result
           ELSE /\ result' = Raise(r.error, "", <<>>)
                /\ pc' = "done"
                /\ UNCHANGED temp_data
    /\ UNCHANGED <<inputs, registry, script, contents, opened, chmodded,
                   popen, child, exit_status, oe>>

\* run_script(temp.name, cwd) up to proc.wait(): make_executable, then Popen
Launch ==
    /\ pc = "run_script"
    /\ chmodded' = chmodded \cup {temp}
    /\ LET call == PopenCall(temp, project_dir, platform)
       IN  /\ popen' = Append(popen, call)
           /\ \E outcome \in LaunchOutcomes(call) :
                IF outcome = "started"
                THEN /\ child' = "running"
                     /\ pc' = "wait"
                     /\ UNCHANGED <<result, oe>>
                ELSE /\ oe' = outcome
                     /\ result' = ExceptOSError(OSError(outcome))
                     /\ pc' = "done"
                     /\ UNCHANGED child
    /\ UNCHANGED <<inputs, registry, script, contents, opened, temp,
                   temp_data, exit_status>>

\* the child process terminates
ChildExit ==
    /\ child = "running"
    /\ \E n \in ExitStatuses : exit_status' = n
    /\ child' = "exited"
    /\ UNCHANGED <<inputs, pc, registry, script, contents, opened, temp,
                   temp_data, chmodded, popen, oe, result>>

\* proc.wait() returns, and the rest of the try block
Wait ==
    /\ pc = "wait"
    /\ WaitReturns(child)
    /\ result' = ExceptOSError(WaitResult(exit_status))
    /\ pc' = "done"
    /\ UNCHANGED <<inputs, registry, script, contents, opened, temp,
                   temp_data, chmodded, popen, child, exit_status, oe>>

Next ==
    \/ RunHook
    \/ ReadScript
    \/ RenderToTemp
    \/ Launch
    \/ ChildExit
    \/ Wait

Spec == Init /\ [][Next]_vars

\* a hooks directory of at most one entry: how the child process is waited
\* for does not depend on what else the directory holds
InitOneEntry == Init /\ Len(listing) <= 1

\* the interpreter keeps running the call: every step of run_hook that can be
\* taken is taken; nothing makes the child process terminate
FairSpec ==
    /\ InitOneEntry
    /\ [][Next]_vars
    /\ WF_vars(RunHook \/ ReadScript \/ RenderToTemp \/ Launch \/ Wait)

----------------------------------------------------------------------------
(* Properties *)

Matches(h) == { i \in 1..Len(listing) : Stem(listing[i]) = h }

Discovered == pc # "run_hook" /\ hooks_kind = "dir"

NoSideEffect ==
    /\ opened = {}
    /\ temp = <<>>
    /\ temp_data = NoTempWritten
    /\ chmodded = {}
    /\ popen = <<>>
    /\ child = "none"

\* C1: with no hooks subdirectory in the current working directory,
\* find_hooks returns an empty registry, and run_hook with a recognized hook
\* name returns normally, having created no temporary file and launched no
\* child process.
C1_NoHooksDirNoOp ==
    (~(hooks_kind \in {"dir", "unlistable"}) /\ hook_name \in _HOOKS)
        => /\ registry = EmptyDict
           /\ NoSideEffect
           /\ pc \in {"run_hook", "done"}
           /\ pc = "done" => result = Returned

C1_Witness ==
    /\ hooks_kind \in {"absent", "file"}
    /\ hook_name \in _HOOKS
    /\ pc = "done"
    /\ result.kind = "returned"

\* C5: for every content of an existing hooks directory, the registry has a
\* key h exactly when h is a recognized hook name and some listed entry has
\* stem h; the value is the absolute path of such a listed entry; an entry
\* with another stem adds no key; a directory holding only pre_gen_project.py
\* yields exactly the one entry keyed pre_gen_project.
C5_RegistryIsMatches ==
    Discovered =>
        /\ DOMAIN registry \subseteq _HOOKS
        /\ \A h \in _HOOKS : (h \in DOMAIN registry) <=> (Matches(h) # {})
        /\ \A h \in DOMAIN registry :
              \E i \in Matches(h) :
                 registry[h] = <<"/", "template", "/", "hooks", "/">> \o listing[i]
        /\ listing = << <<"pre_gen_project", ".", "py">> >> =>
              /\ DOMAIN registry = { <<"pre_gen_project">> }
              /\ registry[<<"pre_gen_project">>] =
                    <<"/", "template", "/", "hooks", "/", "pre_gen_project", ".", "py">>

C5_Witness ==
    /\ Discovered
    /\ Cardinality(DOMAIN registry) = 1
    /\ \E i \in 1..Len(listing) : Stem(listing[i]) \notin _HOOKS

\* C8: when several listed entries have the same stem, a recognized hook
\* name, the registry holds one entry for that name, the path of the match
\* that is last in listing order, and run_hook for that name reads and
\* executes only that script.
C8_LastListedWins ==
    \A h \in _HOOKS :
        (Discovered /\ Cardinality(Matches(h)) >= 2) =>
            LET last == CHOOSE i \in Matches(h) : \A j \in Matches(h) : j <= i
                path == <<"/", "template", "/", "hooks", "/">> \o listing[last]
            IN  /\ h \in DOMAIN registry
                /\ registry[h] = path
                /\ hook_name = h =>
                     /\ script = path
                     /\ opened \subseteq {path}
                     /\ Len(popen) <= 1
                     /\ temp # <<>> => SplitExt(temp)[2] = SplitExt(path)[2]

C8_Witness ==
    /\ Discovered
    /\ Cardinality(Matches(hook_name)) >= 2
    /\ hook_name \in _HOOKS
    /\ opened # {}
    /\ Len(popen) = 1
    /\ pc = "done"

HookAbsent == hook_name \notin DOMAIN registry

Contains(msg, piece) == \E i \in 1..Len(msg) : msg[i] = piece

\* C2: run_hook returns normally only if the named hook is absent from the
\* registry or the child process of the rendered script exited with status
\* 0; in every other case an error reaches the caller.  With only
\* post_gen_project.sh present and exiting with 7, run_hook for
\* post_gen_project raises a failure carrying 7 and run_hook for
\* pre_gen_project is a no-op.
C2_NoSilentSuccess ==
    pc = "done" =>
        /\ result.kind \in {"returned", "raised"}
        /\ result.kind = "returned" <=>
              \/ HookAbsent /\ hooks_kind # "unlistable"
              \/ /\ Len(popen) = 1
                 /\ child = "exited"
                 /\ exit_status = 0
        /\ (hooks_kind = "dir"
              /\ listing = << <<"post_gen_project", ".", "sh">> >>) =>
              /\ (hook_name = <<"post_gen_project">>
                    /\ child = "exited" /\ exit_status = 7) =>
                    /\ result.kind = "raised"
                    /\ result.type = "FailedHookException"
                    /\ Contains(result.msg, "7")
              /\ hook_name = <<"pre_gen_project">> =>
                    result = Returned /\ NoSideEffect

C2_Witness ==
    /\ pc = "done"
    /\ hooks_kind = "dir"
    /\ listing = << <<"post_gen_project", ".", "sh">> >>
    /\ hook_name = <<"post_gen_project">>
    /\ child = "exited"
    /\ exit_status = 7
    /\ result.kind = "raised"

\* C3: when the child process exits with status 0 run_script returns
\* normally; when it exits with n # 0 run_script raises FailedHookException
\* with n in its message, and the OSError handler neither re-wraps nor
\* replaces that exception.
C3_ExitStatusMapping ==
    (pc = "done" /\ child = "exited") =>
        IF exit_status = 0
        THEN result = Returned
        ELSE /\ result.kind = "raised"
             /\ result.type = "FailedHookException"
             /\ result.msg = <<"Hook script failed (exit status: ",
                               ToString(exit_status), ")">>
             /\ Contains(result.msg, ToString(exit_status))
             /\ ~Contains(result.msg, "Hook script failed (error: ")
             /\ result.msg # ShebangMessage

C3_Witness ==
    /\ pc = "done"
    /\ child = "exited"
    /\ exit_status = 3
    /\ result.type = "FailedHookException"

\* C4: when launching the child process raises an OS error, an exec-format
\* error gives a FailedHookException saying the script may be empty or lack
\* a shebang, and any other error gives a FailedHookException wrapping the
\* error's description; the two messages differ, exactly one is produced,
\* and no OSError leaves the launch.
C4_LaunchErrorMapping ==
    oe # "" =>
        /\ pc = "done"
        /\ child = "none"
        /\ result.kind = "raised"
        /\ result.type = "FailedHookException"
        /\ ~IsInstance(result.type, "OSError")
        /\ LET shebang == <<"Hook script failed, might be an empty file or missing a shebang">>
               wrapped == <<"Hook script failed (error: ", StrOSError(oe), ")">>
           IN  /\ shebang # wrapped
               /\ oe = "ENOEXEC" => result.msg = shebang
               /\ oe # "ENOEXEC" => result.msg = wrapped

C4_Witness ==
    /\ oe = "ENOEXEC"
    /\ pc = "done"
    /\ result.msg = ShebangMessage

\* the names the script text refers to
Referenced(tpl) ==
    { tpl[i].v : i \in { j \in 1..Len(tpl) : tpl[j].t \in {"name", "getattr"} } }

\* C6: if the script text refers to a variable that is no key of the
\* context, rendering fails with a TemplateError that reaches run_hook's
\* caller, and no rendered output is produced or handed to the executor.
C6_UndefinedVariableRaises ==
    (pc \in {"run_script", "wait", "done"}
       /\ contents # <<>>
       /\ \E v \in Referenced(contents) : v \notin DOMAIN context) =>
        /\ pc = "done"
        /\ result.kind = "raised"
        /\ IsInstance(result.type, "TemplateError")
        /\ temp_data = NoTempWritten
        /\ popen = <<>>

\* C7: an I/O error raised while listing an existing hooks directory leaves
\* find_hooks, and so run_hook, as a typed discovery failure, not as a raw
\* OS error.
C7_ListingErrorIsTyped ==
    (hooks_kind = "unlistable" /\ pc = "done") =>
        /\ result.kind = "raised"
        /\ ~IsInstance(result.type, "OSError")

\* C9: once the child process is launched, run_hook neither returns nor
\* raises before the child has terminated (so it never ends if the child
\* never does), it ends once the child has terminated, and one run_hook
\* call launches at most one child process.
C9_BlocksUntilChildExits ==
    /\ []((pc = "done" /\ child # "none") => child = "exited")
    /\ [](child = "running" => pc = "wait")
    /\ [](Len(popen) <= 1)
    /\ [][child # "none" => popen' = popen]_vars
    /\ (child = "exited") ~> (pc = "done")

C9_Witness ==
    /\ child = "exited"
    /\ pc = "done"
    /\ Len(popen) = 1

\* C10: for every present hook, run_hook renders the script before any
\* process is launched, executes the temporary file and never the original
\* script, with working directory project_dir; it launches the interpreter
\* with the temporary file as argument exactly when the original hook file's
\* name ends in .py, and the temporary file itself otherwise; only the
\* temporary file is made executable.
C10_TempFileLaunchAgrees ==
    popen # <<>> =>
        LET call == popen[1]
            original_is_py ==
                /\ Len(script) >= 2
                /\ script[Len(script) - 1] = "."
                /\ script[Len(script)] = "py"
        IN  /\ Len(popen) = 1
            /\ temp_data # NoTempWritten
            /\ temp # script
            /\ \A i \in 1..Len(call.args) : call.args[i] # script
            /\ call.args[Len(call.args)] = temp
            /\ call.cwd = project_dir
            /\ original_is_py <=> call.args = <<sys_executable, temp>>
            /\ ~original_is_py <=> call.args = <<temp>>
            /\ chmodded = {temp}

C10_Witness ==
    /\ popen # <<>>
    /\ script = <<"/", "template", "/", "hooks", "/", "pre_gen_project", ".", "py">>
    /\ popen[1].args = <<sys_executable, temp>>
    /\ child = "exited"

====
